---- MODULE Spec2Model ----
(***************************************************************************)
(* A model of the streamrip core: the rip state machine (Media.rip), the   *)
(* Deezer source client (login, get_metadata, get_downloadable and its     *)
(* URL derivation), the resolution of a pending label                      *)
(* (PendingLabel.resolve) and the worker pool of a source client.          *)
(*                                                                         *)
(* Each part of the program has its own specification over the shared      *)
(* variables: SpecRip, SpecLogin, SpecDownloadable, SpecEncryptedUrl,      *)
(* SpecMetadata, SpecResolve and SpecPool.  A specification leaves the     *)
(* variables of the other parts at their idle values.                      *)
(***************************************************************************)
EXTENDS Naturals, Integers, Sequences, FiniteSets, TLC

VARIABLES
    \* ---- Media.rip (src/src/media.py) ----
    rip_pc,        \* per media object: where its rip() coroutine stands
    rip_log,       \* per media object: the phase events so far, in order
    \* ---- DeezerClient.login (src/streamrip/client/deezer.py) ----
    arl,           \* self.config.arl, "" when no credential is configured
    logged_in,     \* self.logged_in
    session,       \* self.session: 0 before the first login, else the id of
                   \* the session object get_session() returned last
    loginLog,      \* one record per login() call that has returned or raised
    \* ---- DeezerClient.get_downloadable ----
    dl_in,         \* the arguments of the call and what the provider holds
    dl_out,        \* what the call returned or raised, NoCall before it
    \* ---- DeezerClient._get_encrypted_file_url ----
    url_in,        \* the lengths of the arguments of the call
    url_out,       \* the buffers the call built and how it ended
    \* ---- DeezerClient.get_metadata ----
    md_type,       \* media_type of the call in progress, "" when there is none
    md_pc,         \* where the call stands
    md_sub,        \* the two sub-requests gathered by the call
    md_out,        \* what the call returned or raised
    md_requests,   \* provider requests the call has issued
    md_calls,      \* get_metadata calls made so far
    \* ---- PendingLabel.resolve and the label's children ----
    db,            \* the ids with a `succeeded` record in the ledger
    config,        \* the downloads section of the Config the run was given
    pending,       \* the PendingLabel: its id and the source of its client
    res_pc,        \* where resolve() stands
    res_calls,     \* the get_metadata calls issued, in order
    meta_album_ids,\* meta.album_ids() of the metadata resolve() was answered
    label,         \* the Label resolve() returned, NoLabel before
    children,      \* per child of the label: its resolution status
    \* ---- the worker pool of each source client ----
    task_src,      \* per task: the source whose client it runs against
    task_pc        \* per task: queued, resolving, resolved, ripping or done

ripVars   == <<rip_pc, rip_log>>
loginVars == <<arl, logged_in, session, loginLog>>
dlVars    == <<dl_in, dl_out, url_in, url_out>>
mdVars    == <<md_type, md_pc, md_sub, md_out, md_requests, md_calls>>
resVars   == <<db, config, pending, res_pc, res_calls, meta_album_ids, label,
               children>>
poolVars  == <<task_src, task_pc>>
vars      == <<rip_pc, rip_log, arl, logged_in, session, loginLog, dl_in, dl_out,
               url_in, url_out,
               md_type, md_pc, md_sub, md_out, md_requests, md_calls,
               db, config, pending, res_pc, res_calls, meta_album_ids, label,
               children, task_src, task_pc>>

----------------------------------------------------------------------------
(***************************************************************************)
(* Media.rip: preprocess, download, postprocess awaited one after another. *)
(* Every phase is abstract; an override either returns or raises, and an   *)
(* exception leaves rip() at the await that raised it.                     *)
(***************************************************************************)

\* How many media objects are ripped side by side.
MaxMedia == 3

MediaObjs == 1 .. MaxMedia

\* RipNext with the download step left out of the body.
RipSkipsDownload(phase) ==
    CASE phase = "preprocess" -> "postprocess"
      [] phase = "download" -> "postprocess"
      [] OTHER -> "return"

\* The statement rip() runs after the phase `phase` has returned: the next
\* await of the body, or the end of the coroutine.
RipNext(phase) ==
    CASE phase = "preprocess" -> "download"
      [] phase = "download" -> "postprocess"
      [] OTHER -> "return"

\* The state of the rip while `phase` is being awaited.
RipStateOf(phase) ==
    CASE phase = "preprocess" -> "preprocessing"
      [] phase = "download" -> "downloading"
      [] phase = "postprocess" -> "postprocessing"
      [] OTHER -> "done"

RipPhaseOf(state) ==
    CASE state = "preprocessing" -> "preprocess"
      [] state = "downloading" -> "download"
      [] OTHER -> "postprocess"

RipRunning == {"preprocessing", "downloading", "postprocessing"}

InitRip ==
    /\ rip_pc = [m \in MediaObjs |-> "created"]
    /\ rip_log = [m \in MediaObjs |-> <<>>]

\* rip() is called: its first statement awaits self.preprocess().
RipCall(m) ==
    /\ rip_pc[m] = "created"
    /\ rip_pc' = [rip_pc EXCEPT ![m] = RipStateOf("preprocess")]
    /\ rip_log' = [rip_log EXCEPT ![m] = Append(@, <<"preprocess", "start">>)]
    /\ UNCHANGED <<loginVars, dlVars, mdVars, resVars, poolVars>>

\* The awaited phase returns: rip() goes on to its next statement.
RipPhaseReturns(m) ==
    /\ rip_pc[m] \in RipRunning
    /\ LET phase == RipPhaseOf(rip_pc[m])
           nxt   == RipNext(phase)
           ended == Append(rip_log[m], <<phase, "end">>)
       IN  /\ rip_pc' = [rip_pc EXCEPT ![m] = RipStateOf(nxt)]
           /\ rip_log' = [rip_log EXCEPT ![m] =
                            IF nxt = "return" THEN ended
                            ELSE Append(ended, <<nxt, "start">>)]
    /\ UNCHANGED <<loginVars, dlVars, mdVars, resVars, poolVars>>

\* RipOnRaise for a body that swallows the exception and carries on with
\* its next statement.
RipOnRaiseSwallowed(phase) == RipStateOf(RipNext(phase))

\* Where rip() stands once the phase it awaits has raised: the body has no
\* try statement, so the exception ends the coroutine whatever the phase.
RipOnRaise(phase) == "failed"

\* The awaited phase raises: the exception propagates out of rip().
RipPhaseRaises(m) ==
    /\ rip_pc[m] \in RipRunning
    /\ rip_pc' = [rip_pc EXCEPT ![m] = RipOnRaise(RipPhaseOf(rip_pc[m]))]
    /\ rip_log' = [rip_log EXCEPT ![m] =
                     Append(@, <<RipPhaseOf(rip_pc[m]), "raise">>)]
    /\ UNCHANGED <<loginVars, dlVars, mdVars, resVars, poolVars>>

----------------------------------------------------------------------------
(***************************************************************************)
(* DeezerClient.login                                                      *)
(***************************************************************************)

\* How many login() calls a run makes.
MaxLogins == 6

Arls == {"", "arl"}

InitLogin ==
    /\ arl \in Arls
    /\ logged_in = FALSE
    /\ session = 0
    /\ loginLog = <<>>

\* LoginOutcome without the `if not arl` test.
LoginNoArlCheck(a, li, success) ==
    IF ~success
    THEN [result |-> "AuthenticationError", asked |-> TRUE, logged_in |-> li]
    ELSE [result |-> "ok", asked |-> TRUE, logged_in |-> TRUE]

\* What one login() call does after it has taken its session, given the
\* configured arl `a`, the flag `li` it finds and the answer `success` of
\* login_via_arl: the exception it raises ("ok" for none), whether it called
\* login_via_arl, and the logged_in flag it leaves.
LoginOutcome(a, li, success) ==
    IF a = ""
    THEN [result |-> "MissingCredentials", asked |-> FALSE, logged_in |-> li]
    ELSE IF ~success
    THEN [result |-> "AuthenticationError", asked |-> TRUE, logged_in |-> li]
    ELSE [result |-> "ok", asked |-> TRUE, logged_in |-> TRUE]

\* One login() call.  It first replaces self.session by the session
\* get_session() returns, whatever the client's state; the provider's answer
\* to login_via_arl is the provider's choice.
Login ==
    /\ Len(loginLog) < MaxLogins
    /\ \E success \in BOOLEAN :
         LET fresh == Len(loginLog) + 1
             out   == LoginOutcome(arl, logged_in, success)
         IN  /\ session' = fresh
             /\ logged_in' = out.logged_in
             /\ loginLog' = Append(loginLog,
                  [result |-> out.result,
                   asked |-> out.asked,
                   accepted |-> out.asked /\ success,
                   was_logged_in |-> logged_in,
                   session_before |-> session,
                   session_after |-> fresh])
    /\ UNCHANGED <<arl, ripVars, dlVars, mdVars, resVars, poolVars>>

----------------------------------------------------------------------------
(***************************************************************************)
(* DeezerClient.get_downloadable and _get_encrypted_file_url               *)
(***************************************************************************)

\* The highest quality argument a caller passes (quality_map has the
\* entries 0, 1 and 2; a larger index is outside the list).
MaxQualityArg == 3

\* quality_map: the index of each entry.
QualityMap == {0, 1, 2}

\* What self.client.get_track_url(token, format_str) can do: return a URL,
\* return None, raise deezer.WrongLicense, raise deezer.WrongGeolocation, or
\* raise something else.
TrackUrlResponses == {"url", "none", "WrongLicense", "WrongGeolocation", "error"}

NoCall == [kind |-> "none"]

\* The sets of tiers a subscription may stream: every tier up to its maximum
\* ("Deezer HiFi is required for quality 2. Otherwise, the maximum quality
\* allowed is 1"), or none at all.
Subscriptions == {{q \in QualityMap : q < k} : k \in 0 .. Cardinality(QualityMap)}

\* The inputs of one call: the requested quality, and the provider's side:
\* whether gw.get_track answers, which keys its track_info holds, which
\* tiers the session may stream (avail) and the answer to get_track_url.
\* get_track_url answers with a URL or with None only for a tier the
\* session may stream, and with WrongLicense only for one it may not.
DlInputs ==
    {i \in [quality : 0 .. MaxQualityArg,
            avail : Subscriptions,
            resp : TrackUrlResponses,
            gw_ok : BOOLEAN,
            has_filesizes : BOOLEAN,
            has_token : BOOLEAN,
            md5_origin : {"missing", "empty", "hash"},
            has_media_version : BOOLEAN] :
        /\ i.resp \in {"url", "none"} => i.quality \in i.avail
        /\ i.resp = "WrongLicense" => i.quality \notin i.avail}

InitDownloadable ==
    /\ dl_in \in DlInputs
    /\ dl_out = NoCall

\* TrackUrlOutcome with the `except deezer.WrongGeolocation` clause missing:
\* the exception leaves get_downloadable as it is.
TrackUrlNoGeoClause(resp) ==
    CASE resp = "WrongLicense" -> [raise |-> "NonStreamable", url |-> "none"]
      [] resp = "WrongGeolocation" -> [raise |-> "WrongGeolocation", url |-> "none"]
      [] resp = "error" -> [raise |-> "ProviderError", url |-> "none"]
      [] resp = "url" -> [raise |-> "", url |-> "negotiated"]
      [] OTHER -> [raise |-> "", url |-> "none"]

\* The try statement around get_track_url: the exception that leaves it
\* ("" for none) and the url it binds.
TrackUrlOutcome(resp) ==
    CASE resp = "WrongLicense" -> [raise |-> "NonStreamable", url |-> "none"]
      [] resp = "WrongGeolocation" -> [raise |-> "NonStreamable", url |-> "none"]
      [] resp = "error" -> [raise |-> "ProviderError", url |-> "none"]
      [] resp = "url" -> [raise |-> "", url |-> "negotiated"]
      [] OTHER -> [raise |-> "", url |-> "none"]

\* The `if url is None` branch: the two track_info lookups of the call's
\* arguments, then _get_encrypted_file_url, whose track_hash[0] needs a
\* non-empty hash.  The exception raised, "" when a URL comes back.
EncryptedFileUrlError(i) ==
    IF i.md5_origin = "missing" \/ ~i.has_media_version THEN "KeyError"
    ELSE IF i.md5_origin = "empty" THEN "IndexError"
    ELSE ""

Raised(kind, asked, derivation) ==
    [kind |-> kind, quality |-> -1, url |-> "none",
     asked |-> asked, derivation |-> derivation]

\* get_downloadable(item_id, quality), statement by statement.  asked: the
\* call reached get_track_url; derivation: it entered the `url is None` branch.
GetDownloadableResult(i) ==
    IF ~i.gw_ok THEN Raised("ProviderError", FALSE, FALSE)
    ELSE IF i.quality \notin QualityMap THEN Raised("IndexError", FALSE, FALSE)
    ELSE IF ~i.has_filesizes \/ ~i.has_token THEN Raised("KeyError", FALSE, FALSE)
    ELSE LET got == TrackUrlOutcome(i.resp)
         IN  IF got.raise # "" THEN Raised(got.raise, TRUE, FALSE)
             ELSE IF got.url = "none"
             THEN IF EncryptedFileUrlError(i) # ""
                  THEN Raised(EncryptedFileUrlError(i), TRUE, TRUE)
                  ELSE [kind |-> "Downloadable", quality |-> i.quality,
                        url |-> "derived", asked |-> TRUE, derivation |-> TRUE]
             ELSE [kind |-> "Downloadable", quality |-> i.quality,
                   url |-> got.url, asked |-> TRUE, derivation |-> FALSE]

GetDownloadable ==
    /\ dl_out = NoCall
    /\ dl_out' = GetDownloadableResult(dl_in)
    /\ UNCHANGED <<dl_in, url_in, url_out, ripVars, loginVars, mdVars, resVars, poolVars>>

\* ---- _get_encrypted_file_url, byte by byte ----

\* The longest meta_id and media_version strings passed to the call.
MaxIdLen == 9

MaxVersionLen == 8

\* The AES block size the buffer is padded to.
BlockSize == 16

\* The length of hashlib.md5(...).hexdigest().
Md5HexLen == 32

\* b"\xa4", the separator; b".", the padding byte; the bytes of str(1).
Sep == 164

PadByte == 46

FormatNumber == 49

\* The bytes of the characters of the strings: hexadecimal digits for the
\* hashes, decimal digits for the id and the version.  Which digits they are
\* does not matter to the layout of the buffer.
HexDigit == 102

DecDigit == 55

\* n bytes b.
Fill(n, b) == [k \in 1 .. n |-> b]

\* The lengths of track_hash (empty, or an MD5 in hexadecimal), of
\* str(meta_id) and of str(media_version).
UrlInputs ==
    [hash_len : {0, Md5HexLen}, id_len : 1 .. MaxIdLen, version_len : 0 .. MaxVersionLen]

NoUrl == [result |-> "none", info |-> <<>>, padded |-> <<>>]

InitEncryptedUrl ==
    /\ url_in \in UrlInputs
    /\ url_out = NoUrl

\* url_bytes: the four fields joined by the separator.
UrlBytes(i) ==
    Fill(i.hash_len, HexDigit) \o <<Sep>> \o <<FormatNumber>> \o <<Sep>>
        \o Fill(i.id_len, DecDigit) \o <<Sep>> \o Fill(i.version_len, DecDigit)

\* info_bytes before padding: the digest of url_bytes, a separator,
\* url_bytes, a separator.
InfoBytes(i) == Fill(Md5HexLen, HexDigit) \o <<Sep>> \o UrlBytes(i) \o <<Sep>>

\* PaddingLen that adds nothing to a buffer already a whole number of blocks.
PaddingLenNoFullBlock(n) == (BlockSize - (n % BlockSize)) % BlockSize

\* padding_len for a buffer of n bytes.
PaddingLen(n) == BlockSize - (n % BlockSize)

\* info_bytes after info_bytes.extend(b"." * padding_len).
Padded(info) == info \o Fill(PaddingLen(Len(info)), PadByte)

\* The call: the buffers it builds and how it ends.  The cipher refuses a
\* buffer that is not a whole number of blocks, and track_hash[0] in the
\* returned f-string needs a non-empty hash.
EncryptedFileUrl(i) ==
    LET info   == InfoBytes(i)
        padded == Padded(info)
    IN  [result |-> IF Len(padded) % BlockSize # 0 THEN "ValueError"
                    ELSE IF i.hash_len = 0 THEN "IndexError"
                    ELSE "url",
         info |-> info,
         padded |-> padded]

GetEncryptedFileUrl ==
    /\ url_out = NoUrl
    /\ url_out' = EncryptedFileUrl(url_in)
    /\ UNCHANGED <<url_in, dl_in, dl_out, ripVars, loginVars, mdVars, resVars, poolVars>>

----------------------------------------------------------------------------
(***************************************************************************)
(* DeezerClient.get_metadata, get_track, get_album, get_playlist,          *)
(* get_artist.  A sub-request runs in a thread of its own (to_thread); the *)
(* two of a gather run side by side, and the coroutine awaiting the gather *)
(* resumes once both have returned or as soon as one has raised, the other *)
(* thread carrying on regardless.                                          *)
(***************************************************************************)

\* How many get_metadata calls a run makes.
MaxMetadataCalls == 2

MediaTypes == {"track", "album", "playlist", "artist", "label", "video"}

\* The media types whose handler gathers two sub-requests.
Fanout == {"track", "album", "playlist", "artist"}

NoMetadata == [kind |-> "none", seen |-> <<"unissued", "unissued">>]

InitMetadata ==
    /\ md_type = ""
    /\ md_pc = "idle"
    /\ md_sub = <<"unissued", "unissued">>
    /\ md_out = NoMetadata
    /\ md_requests = 0
    /\ md_calls = 0

\* MetadataHandler whose last branch hands the type to get_album.
MetadataHandlerNoElse(media_type) ==
    CASE media_type = "track" -> "get_track"
      [] media_type = "album" -> "get_album"
      [] media_type = "playlist" -> "get_playlist"
      [] media_type = "artist" -> "get_artist"
      [] OTHER -> "get_album"

\* The if/elif chain of get_metadata.
MetadataHandler(media_type) ==
    CASE media_type = "track" -> "get_track"
      [] media_type = "album" -> "get_album"
      [] media_type = "playlist" -> "get_playlist"
      [] media_type = "artist" -> "get_artist"
      [] OTHER -> "raise"

\* GatherFailed with every handler catching the exception as get_track does.
GatherFailedCaughtEverywhere(handler) == "partial"

\* What a handler does when its gather raises: get_track catches the
\* exception, logs it and returns the item it already holds; the others let
\* it propagate.
GatherFailed(handler) == IF handler = "get_track" THEN "partial" ELSE "error"

\* get_metadata(item_id, media_type) up to its first suspension.
StartMetadata(media_type) ==
    /\ md_pc = "idle"
    /\ md_calls < MaxMetadataCalls
    /\ md_calls' = md_calls + 1
    /\ md_type' = media_type
    /\ LET handler == MetadataHandler(media_type)
       IN  CASE handler = "raise" ->
                  /\ md_pc' = "raised"
                  /\ md_out' = [NoMetadata EXCEPT !.kind = "unsupported"]
                  /\ md_requests' = 0
                  /\ UNCHANGED md_sub
             [] handler = "get_track" ->
                  /\ md_pc' = "get_track"
                  /\ md_requests' = 1
                  /\ UNCHANGED <<md_sub, md_out>>
             [] OTHER ->
                  /\ md_pc' = "gather"
                  /\ md_sub' = <<"running", "running">>
                  /\ md_requests' = 2
                  /\ UNCHANGED md_out

GetMetadataCall(media_type) ==
    /\ StartMetadata(media_type)
    /\ UNCHANGED <<ripVars, loginVars, dlVars, resVars, poolVars>>

\* get_track: api.get_track has returned the item; the two album
\* sub-requests are gathered.
TrackItemReturns ==
    /\ md_pc = "get_track"
    /\ md_pc' = "gather"
    /\ md_sub' = <<"running", "running">>
    /\ md_requests' = md_requests + 2
    /\ UNCHANGED <<md_type, md_out, md_calls, ripVars, loginVars, dlVars, resVars, poolVars>>

\* get_track: api.get_track has raised, outside the try statement.
TrackItemRaises ==
    /\ md_pc = "get_track"
    /\ md_pc' = "raised"
    /\ md_out' = [NoMetadata EXCEPT !.kind = "error"]
    /\ UNCHANGED <<md_type, md_sub, md_requests, md_calls,
                   ripVars, loginVars, dlVars, resVars, poolVars>>

\* The thread of sub-request k ends, with a response or an exception.
SubRequestEnds(k, outcome) ==
    /\ md_sub[k] = "running"
    /\ md_sub' = [md_sub EXCEPT ![k] = outcome]
    /\ UNCHANGED <<md_type, md_pc, md_out, md_requests, md_calls,
                   ripVars, loginVars, dlVars, resVars, poolVars>>

\* The handler resumes from its gather: with both responses, or with the
\* first exception.  seen is what the two sub-requests had come to by then.
GatherResumes ==
    /\ md_pc = "gather"
    /\ \/ /\ \A k \in 1 .. 2 : md_sub[k] = "ok"
          /\ md_pc' = "returned"
          /\ md_out' = [kind |-> "full", seen |-> md_sub]
       \/ /\ \E k \in 1 .. 2 : md_sub[k] = "failed"
          /\ LET how == GatherFailed(MetadataHandler(md_type))
             IN  /\ md_pc' = IF how = "error" THEN "raised" ELSE "returned"
                 /\ md_out' = [kind |-> how, seen |-> md_sub]
    /\ UNCHANGED <<md_type, md_sub, md_requests, md_calls,
                   ripVars, loginVars, dlVars, resVars, poolVars>>

\* The caller has its answer; the client is ready for the next call.
MetadataDone ==
    /\ md_pc \in {"returned", "raised"}
    /\ md_type' = ""
    /\ md_pc' = "idle"
    /\ md_sub' = <<"unissued", "unissued">>
    /\ md_out' = NoMetadata
    /\ md_requests' = 0
    /\ UNCHANGED <<md_calls, ripVars, loginVars, dlVars, resVars, poolVars>>

----------------------------------------------------------------------------
(***************************************************************************)
(* PendingLabel.resolve, and the resolution of the children of the Label   *)
(* it returns.  The client of the pending label is the Deezer client above *)
(* or a client of another source, whose get_metadata answers a label       *)
(* request with a response or an exception.                                *)
(***************************************************************************)

\* The longest album list a label's metadata holds.
MaxChildren == 3

LabelIds == {"l1", "l2"}

AlbumIds == {"a1", "a2"}

Sources == {"deezer", "other"}

\* The largest max_connections a configuration file sets.
MaxConnections == 3

\* DownloadsConfig, its two scheduling fields.
Configs == [concurrency : BOOLEAN, max_connections : 1 .. MaxConnections]

NoLabel == [name |-> "", albums |-> <<>>]

\* The album id lists of a label response, in the order the response gives.
AlbumLists == UNION {[1 .. n -> AlbumIds] : n \in 0 .. MaxChildren}

InitResolve ==
    /\ db \in SUBSET (LabelIds \cup AlbumIds)
    /\ config \in Configs
    /\ pending \in [id : LabelIds, source : Sources]
    /\ res_pc = "idle"
    /\ res_calls = <<>>
    /\ meta_album_ids = <<>>
    /\ label = NoLabel
    /\ children = <<>>

\* resolve() is called.  Its first statement awaits
\* self.client.get_metadata(self.id, "label"); on the Deezer client that is
\* the call above, and an exception it raises leaves resolve() at once.
ResolveCall ==
    /\ res_pc = "idle"
    /\ res_calls' = Append(res_calls, [id |-> pending.id, media_type |-> "label"])
    /\ IF pending.source = "deezer"
       THEN /\ StartMetadata("label")
            /\ res_pc' = IF md_pc' = "raised" THEN "failed" ELSE "get_metadata"
       ELSE /\ res_pc' = "get_metadata"
            /\ UNCHANGED mdVars
    /\ UNCHANGED <<db, config, pending, meta_album_ids, label, children,
                   ripVars, loginVars, dlVars, poolVars>>

\* A client of another source raises from get_metadata, or answers with a
\* response LabelMetadata.from_resp cannot read: resolve() raises.
ResolveRaises ==
    /\ res_pc = "get_metadata"
    /\ pending.source # "deezer"
    /\ res_pc' = "failed"
    /\ UNCHANGED <<db, config, pending, res_calls, meta_album_ids, label, children,
                   ripVars, loginVars, dlVars, mdVars, poolVars>>

\* PendingAlbums listing the albums last to first.
PendingAlbumsReversed(album_ids, source, cfg, ledger) ==
    [k \in DOMAIN album_ids |->
        [id |-> album_ids[Len(album_ids) + 1 - k], source |-> source,
         config |-> cfg, db |-> ledger]]

\* The list comprehension of resolve(): one
\* PendingAlbum(album_id, self.client, self.config, self.db) per id, in the
\* order of the ids.
PendingAlbums(album_ids, source, cfg, ledger) ==
    [k \in DOMAIN album_ids |->
        [id |-> album_ids[k], source |-> source, config |-> cfg, db |-> ledger]]

\* The client answers with the label's metadata: resolve() builds one
\* PendingAlbum per id of meta.album_ids(), in that order, and returns the
\* Label holding them.  No child is resolved here.
ResolveReturns(album_ids) ==
    /\ res_pc = "get_metadata"
    /\ pending.source # "deezer"
    /\ res_pc' = "resolved"
    /\ meta_album_ids' = album_ids
    /\ label' = [name |-> pending.id,
                 albums |-> PendingAlbums(album_ids, pending.source, config, db)]
    /\ children' = [k \in DOMAIN album_ids |-> "pending"]
    /\ UNCHANGED <<db, config, pending, res_calls,
                   ripVars, loginVars, dlVars, mdVars, poolVars>>

\* ChildMayResolve for a composite that gives up at the first child that fails.
ChildMayResolveUntilFailure(k) ==
    /\ res_pc = "resolved"
    /\ k \in DOMAIN children
    /\ children[k] = "pending"
    /\ \A j \in DOMAIN children : children[j] # "failed"

\* Child k of the label can be resolved: the label is resolved and the child
\* has not been yet, whatever became of its siblings.
ChildMayResolve(k) ==
    /\ res_pc = "resolved"
    /\ k \in DOMAIN children
    /\ children[k] = "pending"

\* Child k is resolved: a `succeeded` record of its id in the ledger makes
\* it a skip with no get_metadata call; otherwise its metadata is fetched and
\* the child resolves or fails, and the failure is recorded with the child.
ResolveChild(k, outcome) ==
    /\ ChildMayResolve(k)
    /\ IF label.albums[k].id \in label.albums[k].db
       THEN /\ children' = [children EXCEPT ![k] = "skipped"]
            /\ UNCHANGED res_calls
       ELSE /\ children' = [children EXCEPT ![k] = outcome]
            /\ res_calls' = Append(res_calls,
                                   [id |-> label.albums[k].id, media_type |-> "album"])
    /\ UNCHANGED <<db, config, pending, res_pc, meta_album_ids, label,
                   ripVars, loginVars, dlVars, mdVars, poolVars>>

----------------------------------------------------------------------------
(***************************************************************************)
(* The orchestrator's worker pool: one per source client, sized by the     *)
(* downloads configuration.  A task is the resolution and then the rip of  *)
(* one submitted item; it holds a slot of its source's pool while its      *)
(* metadata is being resolved and while it is being ripped.                *)
(***************************************************************************)

\* How many items a run is given.
MaxTasks == 3

Tasks == 1 .. MaxTasks

InitPool ==
    /\ task_src \in [Tasks -> Sources]
    /\ task_pc = [t \in Tasks |-> "queued"]

\* PoolSize of a pool that does not look at the concurrency flag.
PoolSizeIgnoresFlag(cfg) == cfg.max_connections

\* The size of a pool: max_connections, or 1 when the configuration selects
\* sequential execution.
PoolSize(cfg) == IF cfg.concurrency THEN cfg.max_connections ELSE 1

\* The tasks of source src that hold a slot of its pool.
InFlight(src) ==
    {t \in Tasks : task_src[t] = src /\ task_pc[t] \in {"resolving", "ripping"}}

\* Task t takes a slot of its pool, to resolve its item or to rip it; it
\* waits while the pool is full.
TaskStarts(t) ==
    /\ task_pc[t] \in {"queued", "resolved"}
    /\ Cardinality(InFlight(task_src[t])) < PoolSize(config)
    /\ task_pc' = [task_pc EXCEPT ![t] =
                     IF task_pc[t] = "queued" THEN "resolving" ELSE "ripping"]
    /\ UNCHANGED <<task_src, ripVars, loginVars, dlVars, mdVars, resVars>>

\* Task t ends what it holds the slot for, and gives the slot back.
TaskEnds(t) ==
    /\ task_pc[t] \in {"resolving", "ripping"}
    /\ task_pc' = [task_pc EXCEPT ![t] =
                     IF task_pc[t] = "resolving" THEN "resolved" ELSE "done"]
    /\ UNCHANGED <<task_src, ripVars, loginVars, dlVars, mdVars, resVars>>

----------------------------------------------------------------------------
\* The parts of the program a specification leaves alone stay as constructed.
IdleRip == InitRip

IdleLogin == InitLogin /\ arl = ""

IdleDownloadable ==
    /\ dl_in = [quality |-> 0, avail |-> {}, resp |-> "none", gw_ok |-> FALSE,
                has_filesizes |-> FALSE, has_token |-> FALSE,
                md5_origin |-> "missing", has_media_version |-> FALSE]
    /\ dl_out = NoCall

IdleEncryptedUrl ==
    /\ url_in = [hash_len |-> 0, id_len |-> 1, version_len |-> 0]
    /\ url_out = NoUrl

IdleMetadata == InitMetadata

IdleConfig == config = [concurrency |-> FALSE, max_connections |-> 1]

IdlePool ==
    /\ task_src = [t \in Tasks |-> "deezer"]
    /\ task_pc = [t \in Tasks |-> "queued"]

IdlePending ==
    /\ db = {}
    /\ pending = [id |-> "l1", source |-> "deezer"]
    /\ res_pc = "idle"
    /\ res_calls = <<>>
    /\ meta_album_ids = <<>>
    /\ label = NoLabel
    /\ children = <<>>

IdleResolve == IdlePending /\ IdleConfig

RipInit ==
    InitRip /\ IdleLogin /\ IdleDownloadable /\ IdleEncryptedUrl /\ IdleMetadata
        /\ IdleResolve /\ IdlePool

NextRip ==
    \E m \in MediaObjs : RipCall(m) \/ RipPhaseReturns(m) \/ RipPhaseRaises(m)

SpecRip == RipInit /\ [][NextRip]_vars

LoginInit ==
    InitLogin /\ IdleRip /\ IdleDownloadable /\ IdleEncryptedUrl /\ IdleMetadata
        /\ IdleResolve /\ IdlePool

NextLogin == Login

SpecLogin == LoginInit /\ [][NextLogin]_vars

DownloadableInit ==
    InitDownloadable /\ IdleEncryptedUrl /\ IdleRip /\ IdleLogin /\ IdleMetadata
        /\ IdleResolve /\ IdlePool

EncryptedUrlInit ==
    InitEncryptedUrl /\ IdleDownloadable /\ IdleRip /\ IdleLogin /\ IdleMetadata
        /\ IdleResolve /\ IdlePool

NextEncryptedUrl == GetEncryptedFileUrl

SpecEncryptedUrl == EncryptedUrlInit /\ [][NextEncryptedUrl]_vars

NextDownloadable == GetDownloadable

SpecDownloadable == DownloadableInit /\ [][NextDownloadable]_vars

MetadataInit ==
    InitMetadata /\ IdleRip /\ IdleLogin /\ IdleDownloadable /\ IdleEncryptedUrl
        /\ IdleResolve /\ IdlePool

NextMetadata ==
    \/ \E t \in MediaTypes : GetMetadataCall(t)
    \/ ResolveCall
    \/ TrackItemReturns
    \/ TrackItemRaises
    \/ \E k \in 1 .. 2 : \E outcome \in {"ok", "failed"} : SubRequestEnds(k, outcome)
    \/ GatherResumes
    \/ MetadataDone

SpecMetadata == MetadataInit /\ [][NextMetadata]_vars

ResolveInit ==
    InitResolve /\ IdleRip /\ IdleLogin /\ IdleDownloadable /\ IdleEncryptedUrl
        /\ IdleMetadata /\ IdlePool

PoolInit ==
    /\ InitPool
    /\ config \in Configs
    /\ IdlePending /\ IdleRip /\ IdleLogin /\ IdleDownloadable /\ IdleEncryptedUrl
    /\ IdleMetadata

NextPool == \E t \in Tasks : TaskStarts(t) \/ TaskEnds(t)

SpecPool == PoolInit /\ [][NextPool]_vars

NextResolve ==
    \/ ResolveCall
    \/ ResolveRaises
    \/ \E album_ids \in AlbumLists : ResolveReturns(album_ids)
    \/ \E k \in 1 .. MaxChildren :
         \E outcome \in {"resolved", "failed"} : ResolveChild(k, outcome)

SpecResolve == ResolveInit /\ [][NextResolve]_vars

----------------------------------------------------------------------------
(***************************************************************************)
(* Properties                                                              *)
(***************************************************************************)

\* How often event e occurs in the sequence log.
Count(log, e) == Cardinality({i \in DOMAIN log : log[i] = e})

\* Event `before` occurs in log somewhere ahead of position i.
Earlier(log, i, before) == \E j \in DOMAIN log : j < i /\ log[j] = before

Phases == {"preprocess", "download", "postprocess"}

\* C2: rip() runs the phases in the order preprocess, download, postprocess:
\* download starts only after preprocess has returned, postprocess only after
\* download has returned, and a rip that has completed has started and
\* finished every phase exactly once.
C2_PhaseOrder ==
    \A m \in MediaObjs :
        LET log == rip_log[m]
        IN  /\ \A i \in DOMAIN log :
                 /\ log[i] = <<"download", "start">>
                      => Earlier(log, i, <<"preprocess", "end">>)
                 /\ log[i] = <<"postprocess", "start">>
                      => Earlier(log, i, <<"download", "end">>)
            /\ rip_pc[m] = "done" =>
                 \A ph \in Phases : /\ Count(log, <<ph, "start">>) = 1
                                    /\ Count(log, <<ph, "end">>) = 1
                                    /\ Count(log, <<ph, "raise">>) = 0

\* A rip has completed, all three phases behind it.
C2_Witness ==
    \E m \in MediaObjs :
        /\ rip_pc[m] = "done"
        /\ Count(rip_log[m], <<"postprocess", "end">>) = 1

\* C6: a login() with no arl configured raises MissingCredentials without
\* calling the provider; a login() the provider rejects raises
\* AuthenticationError; and logged_in is true only if some earlier login()
\* was accepted by the provider.
C6_LoginErrors ==
    /\ \A i \in DOMAIN loginLog :
         LET e == loginLog[i]
         IN  /\ arl = "" => e.result = "MissingCredentials" /\ ~e.asked
             /\ (e.asked /\ ~e.accepted) => e.result = "AuthenticationError"
             /\ e.result = "ok" => e.accepted
    /\ logged_in => \E i \in DOMAIN loginLog : loginLog[i].accepted

\* A client that was rejected once and accepted later.
C6_Witness ==
    /\ logged_in
    /\ \E i, j \in DOMAIN loginLog :
         /\ i < j
         /\ loginLog[i].result = "AuthenticationError"
         /\ loginLog[j].accepted

\* C7: login() on a client that is already logged in changes nothing: it
\* keeps the session it had and sends the provider no authentication request.
C7_LoginIdempotent ==
    \A i \in DOMAIN loginLog :
        loginLog[i].was_logged_in =>
            /\ loginLog[i].session_after = loginLog[i].session_before
            /\ ~loginLog[i].asked

\* The largest element of a non-empty set of tiers.
MaxTier(S) == CHOOSE x \in S : \A y \in S : y <= x

\* get_downloadable was called for a tier of the quality map, the provider
\* answered gw.get_track with a complete track_info, and get_track_url
\* reported neither a geo-restriction nor an error of its own.
DlNegotiated ==
    /\ dl_out # NoCall
    /\ dl_in.quality \in QualityMap
    /\ dl_in.gw_ok /\ dl_in.has_filesizes /\ dl_in.has_token
    /\ dl_in.md5_origin = "hash" /\ dl_in.has_media_version
    /\ dl_in.resp \notin {"WrongGeolocation", "error"}

\* C3: quality negotiation clamps: a request for tier N when the highest
\* available tier is M < N yields a Downloadable at tier M and no error, and
\* the call fails with NonStreamable only when no tier at all is available.
C3_QualityClamped ==
    DlNegotiated =>
        /\ (dl_in.avail # {} /\ MaxTier(dl_in.avail) < dl_in.quality)
             => dl_out.kind = "Downloadable" /\ dl_out.quality = MaxTier(dl_in.avail)
        /\ dl_out.kind = "NonStreamable" => dl_in.avail = {}

\* C4: when get_track_url reports WrongLicense or WrongGeolocation the call
\* raises NonStreamable: it returns no Downloadable, raises nothing else and
\* does not enter the URL-derivation branch.
C4_NonStreamable ==
    (dl_out # NoCall /\ dl_out.asked
        /\ dl_in.resp \in {"WrongLicense", "WrongGeolocation"})
    => /\ dl_out.kind = "NonStreamable"
       /\ dl_out.url = "none"
       /\ ~dl_out.derivation

\* A geo-restricted track has been refused.
C4_Witness ==
    /\ dl_out # NoCall
    /\ dl_out.asked
    /\ dl_in.resp = "WrongGeolocation"
    /\ dl_out.kind = "NonStreamable"

\* C5: the URL-derivation branch is entered exactly when get_track_url
\* returned no URL and raised nothing, and a call that entered it ends with
\* a Downloadable carrying the derived URL or with NonStreamable.
C5_DerivationFallback ==
    dl_out # NoCall =>
        /\ dl_out.derivation <=> (dl_out.asked /\ dl_in.resp = "none")
        /\ dl_out.derivation =>
             \/ dl_out.kind = "Downloadable" /\ dl_out.url = "derived"
             \/ dl_out.kind = "NonStreamable"

\* C1: no get_metadata call is ever issued for an id that has a `succeeded`
\* record in the ledger: resolve() looks the id up before any network call.
C1_LedgerBeforeNetwork ==
    \A n \in DOMAIN res_calls : res_calls[n].id \notin db

\* The sub-requests of the finished call, as its handler saw them.
Seen == md_out.seen

\* The call in progress reached its gather and the handler has resumed.
Gathered == md_pc \in {"returned", "raised"} /\ Seen # <<"unissued", "unissued">>

\* C8 as stated, its all-or-nothing contract: a fan-out call issues its two
\* sub-requests together, returns metadata only with both responses in hand,
\* and if either sub-request failed the call fails and returns nothing.
C8_AllOrNothing ==
    /\ md_pc = "gather" => \A k \in 1 .. 2 : md_sub[k] # "unissued"
    /\ Gathered =>
         /\ md_pc = "returned" => Seen = <<"ok", "ok">>
         /\ (\E k \in 1 .. 2 : Seen[k] = "failed")
              => md_pc = "raised" /\ md_out.kind = "error"

\* C8 as amended: a fan-out call issues its two sub-requests together and
\* returns the full metadata only when both have succeeded.  When one fails,
\* get_album, get_playlist and get_artist raise at once (the other sub-request
\* may still be running) and return nothing, while get_track returns the
\* track item it already holds, without the album's metadata.
C8_AllOrNothingButTrack ==
    /\ md_pc = "gather" => \A k \in 1 .. 2 : md_sub[k] # "unissued"
    /\ Gathered =>
         /\ md_out.kind = "full" <=> Seen = <<"ok", "ok">>
         /\ md_out.kind = "full" => md_pc = "returned" /\ md_sub = <<"ok", "ok">>
         /\ (\E k \in 1 .. 2 : Seen[k] = "failed") =>
              IF md_type = "track"
              THEN md_pc = "returned" /\ md_out.kind = "partial"
              ELSE md_pc = "raised" /\ md_out.kind = "error"

\* An album call has failed on its track listing, the header having arrived.
C8_Witness ==
    /\ md_type = "album"
    /\ md_pc = "raised"
    /\ Seen = <<"ok", "failed">>

\* C9: a get_metadata call for a media type other than track, album,
\* playlist and artist raises without issuing a provider request, so a
\* PendingLabel whose client is the Deezer client never resolves to a Label.
C9_UnsupportedType ==
    /\ (md_type # "" /\ md_type \notin Fanout)
         => /\ md_pc = "raised"
            /\ md_out.kind = "unsupported"
            /\ md_requests = 0
    /\ (pending.source = "deezer" /\ res_pc # "idle")
         => res_pc = "failed" /\ label = NoLabel

\* A pending label has failed on the Deezer client, no request issued.
C9_Witness ==
    /\ pending.source = "deezer"
    /\ res_pc = "failed"
    /\ md_type = "label"
    /\ md_requests = 0

\* How many children of the label have status st.
NumChildren(st) == Cardinality({k \in DOMAIN children : children[k] = st})

\* C10: a child that fails to resolve stops neither its siblings nor the
\* label: the failure is recorded with the child, the label stays resolved
\* with all its children, and every child not yet resolved can still be.
C10_PartialFailure ==
    res_pc = "resolved" =>
        /\ DOMAIN children = DOMAIN label.albums
        /\ \A k \in DOMAIN children :
             children[k] = "pending" => ENABLED ResolveChild(k, "resolved")
        /\ NumChildren("pending") + NumChildren("resolved")
             + NumChildren("failed") + NumChildren("skipped") = Len(label.albums)

\* All children of a label are done: one failed, the others resolved.
C10_Witness ==
    /\ res_pc = "resolved"
    /\ Len(children) = MaxChildren
    /\ NumChildren("failed") = 1
    /\ NumChildren("resolved") = MaxChildren - 1

\* C12: a phase that raises ends its rip: the rip is failed from then on and
\* the raise is the last event of the rip, so no phase is started or
\* finished after it (nothing after a failed preprocess, no postprocess
\* after a failed download).
C12_FailureAbsorbing ==
    \A m \in MediaObjs :
        LET log == rip_log[m]
        IN  /\ \A i \in DOMAIN log :
                 log[i][2] = "raise" => i = Len(log) /\ rip_pc[m] = "failed"
            /\ rip_pc[m] = "failed" =>
                 /\ log # <<>>
                 /\ log[Len(log)][2] = "raise"
            /\ Count(log, <<"preprocess", "raise">>) = 1
                 => /\ Count(log, <<"download", "start">>) = 0
                    /\ Count(log, <<"postprocess", "start">>) = 0
            /\ Count(log, <<"download", "raise">>) = 1
                 => Count(log, <<"postprocess", "start">>) = 0

\* One rip has failed in preprocess and another in download.
C12_Witness ==
    \E m, n \in MediaObjs :
        /\ rip_pc[m] = "failed" /\ rip_pc[n] = "failed"
        /\ Count(rip_log[m], <<"preprocess", "raise">>) = 1
        /\ Count(rip_log[n], <<"download", "raise">>) = 1

\* C14: whatever the length of the unpadded info bytes, the buffer handed to
\* the cipher is a whole number of 16-byte blocks, starts with the unpadded
\* bytes unchanged, and ends with between 1 and 16 padding bytes: 16 when the
\* unpadded bytes already fill whole blocks.
C14_Padding ==
    url_out # NoUrl =>
        LET info   == url_out.info
            padded == url_out.padded
            added  == Len(padded) - Len(info)
        IN  /\ info = InfoBytes(url_in)
            /\ Len(padded) % BlockSize = 0
            /\ added \in 1 .. BlockSize
            /\ SubSeq(padded, 1, Len(info)) = info
            /\ \A k \in Len(info) + 1 .. Len(padded) : padded[k] = PadByte
            /\ Len(info) % BlockSize = 0 => added = BlockSize
            /\ url_out.result # "ValueError"

\* A buffer that already filled whole blocks has been given a block of padding.
C14_Witness ==
    /\ url_out # NoUrl
    /\ url_out.result = "url"
    /\ Len(url_out.info) % BlockSize = 0
    /\ Len(url_out.padded) = Len(url_out.info) + BlockSize

\* The get_metadata calls issued so far for media type t.
CallsFor(t) == {n \in DOMAIN res_calls : res_calls[n].media_type = t}

\* C13: a resolve() that has returned a Label made one get_metadata call, for
\* its own id and the type label; the Label holds one pending album per id
\* of the metadata, in the metadata's order, each with the label's client,
\* config and ledger; and resolve() fetched no child's metadata: the album
\* calls are those of the children resolved since.
C13_LabelChildren ==
    res_pc = "resolved" =>
        /\ CallsFor("label") = {1}
        /\ res_calls[1] = [id |-> pending.id, media_type |-> "label"]
        /\ Len(label.albums) = Len(meta_album_ids)
        /\ \A k \in DOMAIN label.albums :
             label.albums[k] = [id |-> meta_album_ids[k], source |-> pending.source,
                                config |-> config, db |-> db]
        /\ Cardinality(CallsFor("album"))
             = NumChildren("resolved") + NumChildren("failed")
        /\ (\A k \in DOMAIN children : children[k] = "pending")
             => Len(res_calls) = 1

\* resolve() has just returned a Label of several different albums, none of
\* them resolved yet, the ledger holding records.
C13_Witness ==
    /\ res_pc = "resolved"
    /\ Len(label.albums) = MaxChildren
    /\ label.albums[1].id # label.albums[2].id
    /\ \A k \in DOMAIN children : children[k] = "pending"
    /\ db # {}
    /\ Len(res_calls) = 1

\* C11: for every source, the tasks in flight (resolving or ripping) never
\* number more than the configured max_connections, and never more than one
\* when the configuration selects sequential execution.
C11_BoundedInFlight ==
    \A src \in Sources :
        /\ Cardinality(InFlight(src)) <= config.max_connections
        /\ ~config.concurrency => Cardinality(InFlight(src)) <= 1

\* A pool of two or more slots is full, with a task of its source waiting.
C11_Witness ==
    \E src \in Sources :
        /\ config.concurrency
        /\ config.max_connections >= 2
        /\ Cardinality(InFlight(src)) = config.max_connections
        /\ \E t \in Tasks : task_src[t] = src /\ task_pc[t] \in {"queued", "resolved"}
====
